---- MODULE Spec2Model ----
(***************************************************************************)
(* Model of the load pipeline of gcp-sa-lookup (src/main.go): main's load  *)
(* mode, concurrentProjectProcessing with its worker goroutines, the       *)
(* goroutine that closes the results channel, the progress reporter        *)
(* goroutine, the deletion-marking loop and the CSV load/save.             *)
(***************************************************************************)
EXTENDS Integers, Sequences, FiniteSets, TLC

VARIABLES
    gcloudProjects,   \* what `gcloud projects list` answers (environment)
    directory,        \* directory[i]: what getServiceAccounts answers for projects[i]
    concurrency,      \* var concurrency, the value of flag -c
    csvExists,        \* whether service-accounts.csv exists
    csvRows,          \* its data rows <<ProjectID, Email, SubjectID, Status>>
    run,              \* which execution of the program this is (1 or 2)
    mainPc,           \* position of the calling goroutine (main)
    projects,         \* projectsToProcess
    existingAccounts, \* map[string]ServiceAccount, key "p|e|s"
    accessStatuses,   \* []ProjectAccess
    processed,        \* map[string]bool of concurrentProjectProcessing (the true keys)
    res,              \* the projectResult the range loop holds
    mu,               \* sync.Mutex mu: TRUE when locked
    workerPc,         \* position of each worker goroutine
    sem,              \* number of elements in channel sem (permits held)
    wg,               \* counter of sync.WaitGroup wg
    resultsClosed,    \* channel results has been closed
    closerPc,         \* position of the goroutine of lines 415-418
    progressLen,      \* number of elements buffered in channel progress
    progressClosed,   \* channel progress has been closed
    reporterPc,       \* position of the progress reporter goroutine
    reporterCount,    \* its local variable processed
    stdout,           \* the terminal messages printed, in order
    loaded,           \* history: existingAccounts as readExistingCSV returned it
    firstStore,       \* history: existingAccounts at the end of run 1
    csvAtStart,       \* history: the record file as this execution found it
    cur,              \* history: index of the worker whose outcome res holds
    queried,          \* history: workers whose getServiceAccounts call has returned
    reported,         \* history: workers whose send on results has completed
    signalled,        \* history: workers for whose outcome progress <- 1 was done
    reconciled        \* history: workers whose outcome has been merged

vars == <<gcloudProjects, directory, concurrency, csvExists, csvRows, run, mainPc,
          projects, existingAccounts, accessStatuses, processed, res, mu,
          workerPc, sem, wg, resultsClosed, closerPc, progressLen,
          progressClosed, reporterPc, reporterCount, stdout, loaded,
          firstStore, csvAtStart, cur, queried, reported, signalled, reconciled>>

----------------------------------------------------------------------------
(* Bounds of the model *)

\* longest project list `gcloud projects list` answers
MaxProjects == 2
\* largest value of flag -c tried besides the default
MaxFlag == 1
\* most rows in the record file before the first run
MaxRows == 1

\* const maxConcurrent, the default of flag -c
maxConcurrent == 20

ProjectIds == {"p1", "p2"}
\* what the directory can answer: {email, uniqueId}
Accounts == {[Email |-> "e1", UniqueId |-> "s1"], [Email |-> "e2", UniqueId |-> "s2"]}
Statuses == {"active", "deleted"}

----------------------------------------------------------------------------
(* Data: keys, the record store, the CSV file *)

\* fmt.Sprintf("%s|%s|%s", projectId, email, uniqueId)
Key(p, e, s) == p \o "|" \o e \o "|" \o s

\* ServiceAccount{ProjectID, Email, UniqueId, Status}
ServiceAccount(p, e, s, st) == [ProjectID |-> p, Email |-> e, UniqueId |-> s, Status |-> st]

\* existingAccounts[key] = acc
MapSet(m, key, acc) == [k \in DOMAIN m \cup {key} |-> IF k = key THEN acc ELSE m[k]]

\* make(map[string]ServiceAccount)
EmptyMap == [k \in {} |-> ServiceAccount("", "", "", "")]

\* the loop of readExistingCSV over the rows, in any order of a set of rows
\* with distinct keys
RECURSIVE ReadRows(_, _)
ReadRows(rows, m) ==
    IF rows = {} THEN m
    ELSE LET row == CHOOSE r \in rows : TRUE
         IN ReadRows(rows \ {row},
                     MapSet(m, Key(row[1], row[2], row[3]),
                            ServiceAccount(row[1], row[2], row[3], row[4])))

\* readExistingCSV: no file gives the empty map
readExistingCSV == IF csvExists THEN ReadRows(csvRows, EmptyMap) ELSE EmptyMap

\* a plausible slip: only the active accounts are written
CSVRowsOfActiveOnly(m) ==
    {<<m[k].ProjectID, m[k].Email, m[k].UniqueId, m[k].Status>> :
        k \in {j \in DOMAIN m : m[j].Status = "active"}}

\* the rows writeCSV writes after the header
CSVRowsOf(m) == {<<m[k].ProjectID, m[k].Email, m[k].UniqueId, m[k].Status>> : k \in DOMAIN m}

\* a plausible slip: an entry the store already has keeps its status
RECURSIVE UpsertKeepingStatus(_, _, _)
UpsertKeepingStatus(m, p, accs) ==
    IF accs = {} THEN m
    ELSE LET acc == CHOOSE a \in accs : TRUE
             key == Key(p, acc.Email, acc.UniqueId)
         IN UpsertKeepingStatus(
                IF key \in DOMAIN m THEN m
                ELSE MapSet(m, key, ServiceAccount(p, acc.Email, acc.UniqueId, "active")),
                p, accs \ {acc})

\* the upsert loop of lines 436-439 over res.ServiceAccounts
RECURSIVE Upsert(_, _, _)
Upsert(m, p, accs) ==
    IF accs = {} THEN m
    ELSE LET acc == CHOOSE a \in accs : TRUE
         IN Upsert(MapSet(m, Key(p, acc.Email, acc.UniqueId),
                          ServiceAccount(p, acc.Email, acc.UniqueId, "active")),
                   p, accs \ {acc})

\* a plausible slip: the pass marks every entry, whatever its project
MarkDeletedEverywhere(m, done) ==
    [key \in DOMAIN m |-> [m[key] EXCEPT !.Status = "deleted"]]

\* a plausible slip: the pass drops the deleted entries of the processed projects
MarkDeletedRemoving(m, done) ==
    [key \in {k \in DOMAIN m : ~(m[k].ProjectID \in done /\ m[k].Status = "deleted")}
        |-> m[key]]

\* the loop of main, lines 88-96, over the map
MarkDeleted(m, done) ==
    [key \in DOMAIN m |->
        IF m[key].ProjectID \in done
        THEN IF key \notin DOMAIN m
             THEN [m[key] EXCEPT !.Status = "deleted"]
             ELSE m[key]
        ELSE m[key]]

----------------------------------------------------------------------------
(* The environment and the initial state *)

\* project lists `gcloud projects list` can answer
ProjectLists == UNION {[1..n -> ProjectIds] : n \in 0..MaxProjects}

\* what getServiceAccounts returns: (accounts, nil) or (nil, err)
QueryOutcomes ==
    {[Error |-> TRUE, ServiceAccounts |-> {}]} \cup
    {[Error |-> FALSE, ServiceAccounts |-> A] : A \in SUBSET Accounts}

AllRows ==
    {<<p, a.Email, a.UniqueId, st>> : p \in ProjectIds, a \in Accounts, st \in Statuses}

\* record files an earlier run of the program can have written: one row per key
InitialFiles ==
    {R \in SUBSET AllRows :
        /\ Cardinality(R) <= MaxRows
        /\ \A r1, r2 \in R :
              Key(r1[1], r1[2], r1[3]) = Key(r2[1], r2[2], r2[3]) => r1 = r2}

\* values of flag -c: the default and small ones
Flags == (0..MaxFlag) \cup {maxConcurrent}

\* the zero value of main's and the loop's locals
NoRes == [Project |-> "", ServiceAccounts |-> {}, Error |-> FALSE]

\* the worker goroutines there are: one per project, once the pool is set up
Workers == DOMAIN workerPc

\* the state of one execution of the program before main has done anything
Fresh ==
    /\ mainPc = "getProjects"
    /\ projects = <<>>
    /\ existingAccounts = EmptyMap
    /\ accessStatuses = <<>>
    /\ processed = {}
    /\ res = NoRes
    /\ mu = FALSE
    /\ workerPc = <<>>
    /\ sem = 0
    /\ wg = 0
    /\ resultsClosed = FALSE
    /\ closerPc = "none"
    /\ progressLen = 0
    /\ progressClosed = FALSE
    /\ reporterPc = "none"
    /\ reporterCount = 0
    /\ loaded = EmptyMap
    /\ cur = 0
    /\ queried = {}
    /\ reported = {}
    /\ signalled = {}
    /\ reconciled = {}

Init ==
    /\ gcloudProjects \in ProjectLists
    /\ directory \in [1..Len(gcloudProjects) -> QueryOutcomes]
    /\ concurrency \in Flags
    /\ csvExists \in BOOLEAN
    /\ csvRows \in IF csvExists THEN InitialFiles ELSE {{}}
    /\ run = 1
    /\ stdout = <<>>
    /\ firstStore = EmptyMap
    /\ csvAtStart = <<csvExists, csvRows>>
    /\ Fresh

env == <<gcloudProjects, directory, concurrency>>
file == <<csvExists, csvRows>>
pool == <<workerPc, sem, wg, resultsClosed, closerPc>>
reporter == <<progressLen, progressClosed, reporterPc, reporterCount>>
recon == <<existingAccounts, accessStatuses, processed, res, mu, cur, signalled, reconciled>>
hist == <<loaded, firstStore, csvAtStart, run>>

----------------------------------------------------------------------------
(* main, load mode *)

\* lines 71-81: getGCPProjects succeeds; selectProjects returns the list as it is
GetGCPProjects ==
    /\ mainPc = "getProjects"
    /\ projects' = gcloudProjects
    /\ mainPc' = "read"
    /\ UNCHANGED <<env, file, pool, reporter, recon, hist, stdout, queried, reported>>

\* a plausible slip: the return of line 74 is missing
GetGCPProjectsFailContinuing ==
    /\ mainPc = "getProjects"
    /\ stdout' = Append(stdout, "Error getting projects")
    /\ mainPc' = "read"
    /\ UNCHANGED <<env, file, pool, reporter, recon, hist, projects, queried, reported>>

\* lines 71-75: getGCPProjects fails, main prints the error and returns
GetGCPProjectsFail ==
    /\ mainPc = "getProjects"
    /\ stdout' = Append(stdout, "Error getting projects")
    /\ mainPc' = "done"
    /\ UNCHANGED <<env, file, pool, reporter, recon, hist, projects, queried, reported>>

\* line 83
ReadExistingCSV ==
    /\ mainPc = "read"
    /\ existingAccounts' = readExistingCSV
    /\ loaded' = readExistingCSV
    /\ mainPc' = "start"
    /\ UNCHANGED <<env, file, pool, reporter, projects, accessStatuses, processed,
                   res, mu, cur, signalled, reconciled, firstStore, csvAtStart, run, stdout,
                   queried, reported>>

\* lines 376-394: the channels are made and the progress reporter is started
StartProcessing ==
    /\ mainPc = "start"
    /\ progressLen' = 0
    /\ reporterPc' = "range"
    /\ reporterCount' = 0
    /\ sem' = 0
    /\ wg' = 0
    /\ workerPc' = [i \in 1..Len(projects) |-> "idle"]
    /\ mainPc' = "spawn"
    /\ UNCHANGED <<env, file, recon, hist, projects, resultsClosed, closerPc,
                   progressClosed, stdout, queried, reported>>

\* the next project of the loop of line 397
NextToSpawn == CHOOSE i \in Workers : workerPc[i] = "idle" /\ \A j \in 1..(i-1) : workerPc[j] # "idle"

\* lines 397-399: wg.Add(1); go func(p Project)
SpawnWorker ==
    /\ mainPc = "spawn"
    /\ \E i \in Workers : workerPc[i] = "idle"
    /\ wg' = wg + 1
    /\ workerPc' = [workerPc EXCEPT ![NextToSpawn] = "acquire"]
    /\ UNCHANGED <<env, file, reporter, recon, hist, projects, mainPc, sem,
                   resultsClosed, closerPc, stdout, queried, reported>>

\* lines 415-418: the loop is over, the closing goroutine is started
SpawnCloser ==
    /\ mainPc = "spawn"
    /\ \A i \in Workers : workerPc[i] # "idle"
    /\ closerPc' = "wait"
    /\ mainPc' = "recv"
    /\ UNCHANGED <<env, file, reporter, recon, hist, projects, workerPc, sem, wg,
                   resultsClosed, stdout, queried, reported>>

----------------------------------------------------------------------------
(* a worker goroutine, lines 399-411 *)

\* a plausible slip: the worker does not wait for a permit
AcquireWithoutWaiting(i) ==
    /\ workerPc[i] = "acquire"
    /\ sem' = sem + 1
    /\ workerPc' = [workerPc EXCEPT ![i] = "query"]
    /\ UNCHANGED <<env, file, reporter, recon, hist, projects, mainPc, wg,
                   resultsClosed, closerPc, stdout, queried, reported>>

\* line 401: sem <- struct{}{} blocks while the channel holds concurrency elements
Acquire(i) ==
    /\ workerPc[i] = "acquire"
    /\ sem < concurrency
    /\ sem' = sem + 1
    /\ workerPc' = [workerPc EXCEPT ![i] = "query"]
    /\ UNCHANGED <<env, file, reporter, recon, hist, projects, mainPc, wg,
                   resultsClosed, closerPc, stdout, queried, reported>>

\* lines 404-409: getServiceAccounts returns and res is built
Query(i) ==
    /\ workerPc[i] = "query"
    /\ queried' = queried \cup {i}
    /\ workerPc' = [workerPc EXCEPT ![i] = "send"]
    /\ UNCHANGED <<env, file, reporter, recon, hist, projects, mainPc, sem, wg,
                   resultsClosed, closerPc, stdout, reported>>

\* the projectResult worker i sends
ResultOf(i) ==
    [Project |-> projects[i],
     ServiceAccounts |-> directory[i].ServiceAccounts,
     Error |-> directory[i].Error]

\* a plausible slip: the result is sent before getServiceAccounts has returned
HandoffBeforeQueryReturns(i) ==
    /\ workerPc[i] \in {"query", "send"}
    /\ mainPc = "recv"
    /\ ~resultsClosed
    /\ res' = ResultOf(i)
    /\ cur' = i
    /\ reported' = reported \cup {i}
    /\ workerPc' = [workerPc EXCEPT ![i] = "release"]
    /\ mainPc' = "lock"
    /\ UNCHANGED <<env, file, reporter, hist, projects, existingAccounts,
                   accessStatuses, processed, mu, signalled, reconciled, sem, wg,
                   resultsClosed, closerPc, stdout, queried>>

\* line 410 with line 421: results is unbuffered, the send completes when the
\* range loop of the caller receives
Handoff(i) ==
    /\ workerPc[i] = "send"
    /\ mainPc = "recv"
    /\ ~resultsClosed
    /\ res' = ResultOf(i)
    /\ cur' = i
    /\ reported' = reported \cup {i}
    /\ workerPc' = [workerPc EXCEPT ![i] = "release"]
    /\ mainPc' = "lock"
    /\ UNCHANGED <<env, file, reporter, hist, projects, existingAccounts,
                   accessStatuses, processed, mu, signalled, reconciled, sem, wg,
                   resultsClosed, closerPc, stdout, queried>>

\* a plausible slip: the permit is never given back
ReleaseKeepingPermit(i) ==
    /\ workerPc[i] = "release"
    /\ workerPc' = [workerPc EXCEPT ![i] = "wgdone"]
    /\ UNCHANGED <<env, file, reporter, recon, hist, projects, mainPc, sem, wg,
                   resultsClosed, closerPc, stdout, queried, reported>>

\* line 402, deferred: <-sem
Release(i) ==
    /\ workerPc[i] = "release"
    /\ sem > 0
    /\ sem' = sem - 1
    /\ workerPc' = [workerPc EXCEPT ![i] = "wgdone"]
    /\ UNCHANGED <<env, file, reporter, recon, hist, projects, mainPc, wg,
                   resultsClosed, closerPc, stdout, queried, reported>>

\* line 400, deferred: wg.Done()
WgDone(i) ==
    /\ workerPc[i] = "wgdone"
    /\ wg' = wg - 1
    /\ workerPc' = [workerPc EXCEPT ![i] = "exit"]
    /\ UNCHANGED <<env, file, reporter, recon, hist, projects, mainPc, sem,
                   resultsClosed, closerPc, stdout, queried, reported>>

----------------------------------------------------------------------------
(* the closing goroutine, lines 415-418 *)

\* a plausible slip: the closing goroutine does not wait for the workers
WgWaitNotWaiting ==
    /\ closerPc = "wait"
    /\ closerPc' = "close"
    /\ UNCHANGED <<env, file, reporter, recon, hist, projects, mainPc, workerPc,
                   sem, wg, resultsClosed, stdout, queried, reported>>

\* line 416: wg.Wait() returns when the counter is zero
WgWait ==
    /\ closerPc = "wait"
    /\ wg = 0
    /\ closerPc' = "close"
    /\ UNCHANGED <<env, file, reporter, recon, hist, projects, mainPc, workerPc,
                   sem, wg, resultsClosed, stdout, queried, reported>>

\* line 417: close(results)
CloseResults ==
    /\ closerPc = "close"
    /\ resultsClosed' = TRUE
    /\ closerPc' = "exit"
    /\ UNCHANGED <<env, file, reporter, recon, hist, projects, mainPc, workerPc,
                   sem, wg, stdout, queried, reported>>

----------------------------------------------------------------------------
(* the range loop over results, lines 421-442 *)

\* a plausible slip: the mutex is not taken
LockNotTaken ==
    /\ mainPc = "lock"
    /\ mainPc' = "progress"
    /\ UNCHANGED <<env, file, pool, reporter, hist, projects, existingAccounts,
                   accessStatuses, processed, res, mu, cur, signalled, reconciled,
                   stdout, queried, reported>>

\* line 422
Lock ==
    /\ mainPc = "lock"
    /\ ~mu
    /\ mu' = TRUE
    /\ mainPc' = "progress"
    /\ UNCHANGED <<env, file, pool, reporter, hist, projects, existingAccounts,
                   accessStatuses, processed, res, cur, signalled, reconciled,
                   stdout, queried, reported>>

\* a plausible slip: the buffer is one short of the number of projects
ProgressCapOneShort == Len(projects) - 1

\* line 378: the capacity of make(chan int, len(projects))
ProgressCap == Len(projects)

\* line 423: progress <- 1 blocks while the buffer of len(projects) is full
SendProgress ==
    /\ mainPc = "progress"
    /\ ~progressClosed
    /\ progressLen < ProgressCap
    /\ progressLen' = progressLen + 1
    /\ signalled' = signalled \cup {cur}
    /\ mainPc' = "reconcile"
    /\ UNCHANGED <<env, file, pool, hist, projects, existingAccounts,
                   accessStatuses, processed, res, mu, cur, reconciled,
                   progressClosed, reporterPc, reporterCount, stdout, queried, reported>>

\* ProjectAccess{ProjectID, HasAccess}
ProjectAccess(p, has) == [ProjectID |-> p, HasAccess |-> has]

\* a plausible slip: a failed project gets no record
AppendAccessDroppingFailures(statuses, r) ==
    IF r.Error THEN statuses
    ELSE Append(statuses, ProjectAccess(r.Project, "yes"))

\* a plausible slip: "yes" and "no" are exchanged
AppendAccessInverted(statuses, r) ==
    IF r.Error
    THEN Append(statuses, ProjectAccess(r.Project, "yes"))
    ELSE Append(statuses, ProjectAccess(r.Project, "no"))

\* the appends of lines 425-428 and 430-433
AppendAccess(statuses, r) ==
    IF r.Error
    THEN Append(statuses, ProjectAccess(r.Project, "no"))
    ELSE Append(statuses, ProjectAccess(r.Project, "yes"))

\* a plausible slip: a failed project is entered in processed as well
ReconcileMarkingFailures ==
    /\ mainPc = "reconcile"
    /\ accessStatuses' = AppendAccess(accessStatuses, res)
    /\ processed' = processed \cup {res.Project}
    /\ existingAccounts' = Upsert(existingAccounts, res.Project, res.ServiceAccounts)
    /\ reconciled' = reconciled \cup {cur}
    /\ mainPc' = "unlock"
    /\ UNCHANGED <<env, file, pool, reporter, hist, projects, res, mu, cur,
                   signalled, stdout, queried, reported>>

\* lines 424-440
Reconcile ==
    /\ mainPc = "reconcile"
    /\ accessStatuses' = AppendAccess(accessStatuses, res)
    /\ IF res.Error
       THEN UNCHANGED <<processed, existingAccounts>>
       ELSE /\ processed' = processed \cup {res.Project}
            /\ existingAccounts' = Upsert(existingAccounts, res.Project, res.ServiceAccounts)
    /\ reconciled' = reconciled \cup {cur}
    /\ mainPc' = "unlock"
    /\ UNCHANGED <<env, file, pool, reporter, hist, projects, res, mu, cur,
                   signalled, stdout, queried, reported>>

\* line 441
Unlock ==
    /\ mainPc = "unlock"
    /\ mu' = FALSE
    /\ mainPc' = "recv"
    /\ UNCHANGED <<env, file, pool, reporter, hist, projects, existingAccounts,
                   accessStatuses, processed, res, cur, signalled, reconciled,
                   stdout, queried, reported>>

\* a plausible slip: the loop ends without results being closed
ReturnProcessedEarly ==
    /\ mainPc = "recv"
    /\ mainPc' = "mark"
    /\ UNCHANGED <<env, file, pool, reporter, recon, hist, projects, stdout,
                   queried, reported>>

\* lines 421, 445-446: results is closed, the loop ends and processed is returned
ReturnProcessed ==
    /\ mainPc = "recv"
    /\ resultsClosed
    /\ mainPc' = "mark"
    /\ UNCHANGED <<env, file, pool, reporter, recon, hist, projects, stdout, queried, reported>>

----------------------------------------------------------------------------
(* the progress reporter goroutine, lines 381-388 *)

\* one turn of `for range progress`: an element is counted, or the channel is
\* closed and empty and the summary of line 387 is printed; the goroutine ends
\* with the process
ReporterStep ==
    /\ reporterPc = "range"
    /\ mainPc # "done"
    /\ progressLen > 0 \/ progressClosed
    /\ IF progressLen > 0
       THEN /\ progressLen' = progressLen - 1
            /\ reporterCount' = reporterCount + 1
            /\ UNCHANGED <<reporterPc, stdout>>
       ELSE /\ reporterPc' = "done"
            /\ stdout' = Append(stdout, "Completed in")
            /\ UNCHANGED <<progressLen, reporterCount>>
    /\ UNCHANGED <<env, file, pool, recon, hist, projects, mainPc, progressClosed, queried, reported>>

----------------------------------------------------------------------------
(* main after concurrentProjectProcessing *)

\* lines 88-96
MarkDeletion ==
    /\ mainPc = "mark"
    /\ existingAccounts' = MarkDeleted(existingAccounts, processed)
    /\ mainPc' = "write"
    /\ UNCHANGED <<env, file, pool, reporter, hist, projects, accessStatuses,
                   processed, res, mu, cur, signalled, reconciled, stdout, queried, reported>>

\* lines 98-103: writeCSV rewrites the file; main prints and returns
WriteCSV ==
    /\ mainPc = "write"
    /\ csvExists' = TRUE
    /\ csvRows' = CSVRowsOf(existingAccounts)
    /\ stdout' = Append(stdout, "Operation completed successfully")
    /\ mainPc' = "done"
    /\ UNCHANGED <<env, pool, reporter, recon, hist, projects, queried, reported>>

\* lines 98-103, 360-363: os.Create fails, the file is left as it was; main
\* prints the error, then the lines 102-103, and returns
WriteCSVFail ==
    /\ mainPc = "write"
    /\ stdout' = stdout \o <<"Error writing CSV", "Operation completed successfully">>
    /\ mainPc' = "done"
    /\ UNCHANGED <<env, file, pool, reporter, recon, hist, projects, queried, reported>>

\* the operator runs the program again: a new process, the same directory data
Rerun ==
    /\ mainPc = "done"
    /\ run = 1
    /\ run' = 2
    /\ firstStore' = existingAccounts
    /\ csvAtStart' = <<csvExists, csvRows>>
    /\ mainPc' = "getProjects"
    /\ projects' = <<>>
    /\ existingAccounts' = EmptyMap
    /\ accessStatuses' = <<>>
    /\ processed' = {}
    /\ res' = NoRes
    /\ mu' = FALSE
    /\ workerPc' = <<>>
    /\ sem' = 0
    /\ wg' = 0
    /\ resultsClosed' = FALSE
    /\ closerPc' = "none"
    /\ progressLen' = 0
    /\ progressClosed' = FALSE
    /\ reporterPc' = "none"
    /\ reporterCount' = 0
    /\ loaded' = EmptyMap
    /\ cur' = 0
    /\ queried' = {}
    /\ reported' = {}
    /\ signalled' = {}
    /\ reconciled' = {}
    /\ UNCHANGED <<env, file, stdout>>

----------------------------------------------------------------------------

Next ==
    \/ GetGCPProjects
    \/ GetGCPProjectsFail
    \/ ReadExistingCSV
    \/ StartProcessing
    \/ SpawnWorker
    \/ SpawnCloser
    \/ \E i \in Workers : Acquire(i)
    \/ \E i \in Workers : Query(i)
    \/ \E i \in Workers : Handoff(i)
    \/ \E i \in Workers : Release(i)
    \/ \E i \in Workers : WgDone(i)
    \/ WgWait
    \/ CloseResults
    \/ Lock
    \/ SendProgress
    \/ Reconcile
    \/ Unlock
    \/ ReturnProcessed
    \/ ReporterStep
    \/ MarkDeletion
    \/ WriteCSV
    \/ WriteCSVFail

\* one execution of the program
Spec == Init /\ [][Next]_vars

\* the program executed once and then, by the operator, once more
NextTwice == Next \/ Rerun

SpecTwice == Init /\ [][NextTwice]_vars

\* the scheduler runs every goroutine that can take a step, and every call of
\* getServiceAccounts returns; nothing is assumed of the progress reporter
Fairness ==
    /\ WF_vars(GetGCPProjects \/ ReadExistingCSV \/ StartProcessing \/ SpawnWorker
               \/ SpawnCloser \/ Lock \/ SendProgress \/ Reconcile \/ Unlock
               \/ ReturnProcessed \/ MarkDeletion \/ WriteCSV)
    /\ WF_vars(\E i \in Workers : Acquire(i))
    /\ WF_vars(\E i \in Workers : Query(i))
    /\ WF_vars(\E i \in Workers : Handoff(i))
    /\ WF_vars(\E i \in Workers : Release(i))
    /\ WF_vars(\E i \in Workers : WgDone(i))
    /\ WF_vars(WgWait)
    /\ WF_vars(CloseResults)

\* termination does not read the record store: the fair runs start without
\* rows in the record file
InitFair == Init /\ csvRows = {}

SpecFair == InitFair /\ [][Next]_vars /\ Fairness

----------------------------------------------------------------------------
(* What the claims speak of *)

\* main is past the deletion-marking loop of a run that got its projects
AfterMarking == mainPc \in {"write", "done"} /\ reporterPc # "none"

\* concurrentProjectProcessing has returned
Returned == mainPc \in {"mark", "write", "done"} /\ reporterPc # "none"

\* the workers whose query succeeds in this run
Succeeding == {i \in 1..Len(projects) : ~directory[i].Error}

\* the project ids with a successful query in this run
SucceededProjects == {projects[i] : i \in Succeeding}

\* the keys of the accounts this run's successful queries return
ReturnedKeys ==
    UNION {{Key(projects[i], a.Email, a.UniqueId) : a \in directory[i].ServiceAccounts} :
           i \in Succeeding}

\* the entries of project p in store m
EntriesOf(m, p) == {<<k, m[k]>> : k \in {j \in DOMAIN m : m[j].ProjectID = p}}

\* how many elements of sequence q satisfy Test
CountIn(q, Test(_)) == Cardinality({n \in 1..Len(q) : Test(q[n])})

\* the workers at position pc
At(pcs) == {i \in Workers : workerPc[i] \in pcs}

----------------------------------------------------------------------------
(* C1 *)

\* C1 (as claimed): after the deletion-marking pass every stored entry whose
\* project was successfully queried in this run and whose key no successful
\* query of this run returned has status "deleted".
C1_DeletionMarking ==
    AfterMarking =>
        \A k \in DOMAIN existingAccounts :
            (existingAccounts[k].ProjectID \in SucceededProjects /\ k \notin ReturnedKeys)
                => existingAccounts[k].Status = "deleted"

(* C2 *)

\* C2: when concurrentProjectProcessing has returned, accessStatuses holds one
\* record per dispatched project: as many records as projects, and for each
\* project id as many records as the list dispatches it.
C2_OneRecordPerProject ==
    Returned =>
        /\ Len(accessStatuses) = Len(projects)
        /\ \A p \in ProjectIds :
              CountIn(accessStatuses, LAMBDA a : a.ProjectID = p)
                  = CountIn(projects, LAMBDA q : q = p)

C2_Witness ==
    /\ Returned
    /\ Len(projects) = 2
    /\ projects[1] # projects[2]
    /\ directory[1].Error
    /\ ~directory[2].Error
    /\ Len(accessStatuses) = 2

(* C3 *)

\* C3: after the whole run, for every project without a successful query in
\* this run (its queries failed, or it is not in the project set), the stored
\* entries of that project, keys and statuses, are those that were loaded.
C3_FailedAndAbsentUntouched ==
    AfterMarking =>
        \A p \in ProjectIds \ SucceededProjects :
            EntriesOf(existingAccounts, p) = EntriesOf(loaded, p)

C3_Witness ==
    /\ AfterMarking
    /\ \E i \in 1..Len(projects) :
          /\ directory[i].Error
          /\ EntriesOf(loaded, projects[i]) # {}
          /\ projects[i] \notin SucceededProjects
    /\ Succeeding # {}

(* C4 *)

\* C4: the workers executing getServiceAccounts are never more than the value
\* of flag -c, and each of them holds a permit of the gate.
C4_ConcurrencyBound ==
    /\ Cardinality(At({"query"})) <= sem
    /\ sem <= concurrency

C4_Witness ==
    /\ concurrency = 1
    /\ At({"query"}) # {}
    /\ At({"acquire"}) # {}

(* C5 *)

\* C5 (as claimed): a worker whose query has completed releases its permit
\* before it hands over its outcome: the permits held are those of workers
\* executing the query, and no worker waiting to send holds one.
C5_ReleaseBeforeHandoff == sem <= Cardinality(At({"query"}))

\* C5 (amended): a worker holds its permit from acquiring it until its outcome
\* has been received, so a worker waiting to send holds a permit; it gives the
\* permit back only after the hand-off, before wg.Done.
C5_ReleaseAfterHandoff ==
    /\ sem = Cardinality(At({"query", "send", "release"}))
    /\ \A i \in At({"wgdone", "exit"}) : i \in reported
    /\ \A i \in At({"acquire", "query", "send"}) : i \notin reported

C5_Witness ==
    /\ sem = 1
    /\ concurrency = 1
    /\ At({"send"}) # {}
    /\ At({"acquire"}) # {}

(* C6 *)

\* C6 (as claimed): the query of a project completes before its outcome is
\* reported, and its outcome is reconciled before its progress signal is sent.
C6_SignalAfterReconcile ==
    /\ reported \subseteq queried
    /\ signalled \subseteq reconciled

\* C6 (amended): the query of a project completes before its outcome is
\* reported; its progress signal is sent after the outcome is received, under
\* the mutex, and before the outcome is reconciled.
C6_SignalBeforeReconcile ==
    /\ reported \subseteq queried
    /\ reconciled \subseteq signalled
    /\ signalled \subseteq reported
    /\ mainPc = "reconcile" => mu /\ cur \in signalled /\ cur \notin reconciled

C6_Witness ==
    /\ mainPc = "reconcile"
    /\ reporterCount = Cardinality(signalled)
    /\ reconciled # {}

(* C7 *)

\* C7 (as claimed): once the last outcome is reconciled and the caller has
\* gone on, the progress channel is closed, the reporter has ended and printed
\* its summary.
C7_ReporterTerminates ==
    Returned => progressClosed /\ reporterPc = "done" /\ CountIn(stdout, LAMBDA x : x = "Completed in") = 1

(* C8 *)

\* C8: with a bound of at least 1, once the pool is set up every worker gets a
\* permit, hands over its outcome and ends, the results channel is closed,
\* every outcome, of a failing project or not, is reconciled, and
\* concurrentProjectProcessing returns.
C8_Terminates ==
    (mainPc = "spawn" /\ concurrency >= 1) ~>
        (/\ mainPc = "mark"
         /\ resultsClosed
         /\ \A i \in Workers : workerPc[i] = "exit"
         /\ reconciled = Workers
         /\ sem = 0)

C8_Witness ==
    /\ mainPc = "mark"
    /\ concurrency = 1
    /\ Len(projects) = 2
    /\ directory[1].Error
    /\ ~directory[2].Error
    /\ reconciled = {1, 2}

(* C9 *)

\* C9: after a run every account a successful query of project p returned is
\* in the store under the key of (p, email, subject id) with status "active",
\* whatever was loaded for it, and it is the only entry with these three fields.
C9_UpsertActive ==
    AfterMarking =>
        \A i \in Succeeding : \A a \in directory[i].ServiceAccounts :
            LET key == Key(projects[i], a.Email, a.UniqueId)
            IN /\ key \in DOMAIN existingAccounts
               /\ existingAccounts[key] = ServiceAccount(projects[i], a.Email, a.UniqueId, "active")
               /\ Cardinality({k \in DOMAIN existingAccounts :
                        /\ existingAccounts[k].ProjectID = projects[i]
                        /\ existingAccounts[k].Email = a.Email
                        /\ existingAccounts[k].UniqueId = a.UniqueId}) = 1

C9_Witness ==
    /\ AfterMarking
    /\ \E k \in DOMAIN loaded :
          /\ loaded[k].Status = "deleted"
          /\ k \in ReturnedKeys
          /\ existingAccounts[k].Status = "active"

(* C10 *)

\* C10: when the program has run the load pipeline twice in succession, the
\* project set and the query results being the same, the store at the end of
\* the second run is the store at the end of the first.
C10_Idempotent ==
    (/\ run = 2
     /\ mainPc = "done"
     /\ CountIn(stdout, LAMBDA x : x = "Operation completed successfully") = 2)
        => /\ existingAccounts = firstStore
           /\ \/ stdout[Len(stdout) - 1] = "Error writing CSV"
              \/ csvRows = CSVRowsOf(firstStore)

C10_Witness ==
    /\ run = 2
    /\ mainPc = "done"
    /\ CountIn(stdout, LAMBDA x : x = "Operation completed successfully") = 2
    /\ CountIn(stdout, LAMBDA x : x = "Error writing CSV") = 0
    /\ Len(projects) = 2
    /\ \E k \in DOMAIN firstStore : firstStore[k].Status = "deleted"
    /\ \E k \in DOMAIN firstStore : k \in ReturnedKeys
    /\ loaded = firstStore

(* C11 *)

\* the last message printed, "" when there is none
LastMessage == IF stdout = <<>> THEN "" ELSE stdout[Len(stdout)]

\* C11: when concurrentProjectProcessing has returned, the records of each
\* project are as many "yes" as its queries that returned without error and as
\* many "no" as its queries that failed, in whatever order the outcomes came;
\* a store that was loaded empty then holds entries only of projects whose
\* query succeeded.
C11_AccessStatusCorrect ==
    Returned =>
        /\ \A p \in ProjectIds :
              /\ CountIn(accessStatuses, LAMBDA a : a = ProjectAccess(p, "yes"))
                    = Cardinality({i \in Succeeding : projects[i] = p})
              /\ CountIn(accessStatuses, LAMBDA a : a = ProjectAccess(p, "no"))
                    = Cardinality({i \in (1..Len(projects)) \ Succeeding : projects[i] = p})
        /\ loaded = EmptyMap =>
              \A k \in DOMAIN existingAccounts :
                  existingAccounts[k].ProjectID \in SucceededProjects

C11_Witness ==
    /\ Returned
    /\ loaded = EmptyMap
    /\ concurrency = 1
    /\ projects = <<"p1", "p2">>
    /\ directory[1].Error
    /\ directory[2].ServiceAccounts # {}
    /\ accessStatuses = <<ProjectAccess("p2", "yes"), ProjectAccess("p1", "no")>>
    /\ DOMAIN existingAccounts # {}

(* C12 *)

\* C12, the part the code keeps: one progress signal per outcome received, none
\* lost in the channel, and the reporter's count never above the total.
C12_OneSignalPerOutcome ==
    /\ progressLen + reporterCount = Cardinality(signalled)
    /\ reporterCount <= Len(projects)
    /\ Returned => Cardinality(signalled) = Len(projects)

\* C12 (as claimed): the signal stream of the reporter ends, and the count the
\* reporter has processed at the end of the run is the number of projects
\* dispatched.
C12_AllSignalsCounted ==
    (Returned /\ mainPc = "done") =>
        /\ progressClosed
        /\ progressLen = 0
        /\ reporterCount = Len(projects)

(* C13 *)

\* C13: while the pool is active, every step that changes the record store,
\* the access status list or the processed set is a step of the range loop
\* taken with the mutex held before and after it; no step of a worker, of the
\* closing goroutine or of the reporter changes them.
C13_SingleWriter ==
    [][(/\ <<existingAccounts, accessStatuses, processed>>' #
                <<existingAccounts, accessStatuses, processed>>
        /\ mainPc \in {"spawn", "recv", "lock", "progress", "reconcile", "unlock"})
       => (/\ mainPc = "reconcile"
           /\ mu
           /\ mu'
           /\ workerPc' = workerPc
           /\ closerPc' = closerPc
           /\ reporterCount' = reporterCount)]_vars

C13_Witness ==
    /\ mainPc = "unlock"
    /\ mu
    /\ existingAccounts # loaded
    /\ At({"send"}) # {}
    /\ progressLen > 0

(* C14 *)

\* C14: from the load on no key of the store goes away; after the run every
\* loaded key is in the store with its project, email and subject id, and the
\* record file, rewritten or not, has a row for it.
C14_NoEntryRemoved ==
    /\ DOMAIN loaded \subseteq DOMAIN existingAccounts
    /\ \A k \in DOMAIN loaded :
          /\ existingAccounts[k].ProjectID = loaded[k].ProjectID
          /\ existingAccounts[k].Email = loaded[k].Email
          /\ existingAccounts[k].UniqueId = loaded[k].UniqueId
    /\ (AfterMarking /\ mainPc = "done") =>
          \A k \in DOMAIN loaded :
              \E row \in csvRows : Key(row[1], row[2], row[3]) = k

C14_Witness ==
    /\ AfterMarking
    /\ mainPc = "done"
    /\ <<csvExists, csvRows>> # csvAtStart
    /\ \E k \in DOMAIN loaded :
          /\ loaded[k].ProjectID \in SucceededProjects
          /\ k \notin ReturnedKeys
          /\ loaded[k].Status = "deleted"

(* C15 *)

\* C15: when listing the projects has failed, main has returned, no worker
\* and no reporter was started, no query was made, the record file was not
\* loaded and it is as the execution found it.
C15_EnumerationFailureFatal ==
    LastMessage = "Error getting projects" =>
        /\ mainPc = "done"
        /\ workerPc = <<>>
        /\ reporterPc = "none"
        /\ closerPc = "none"
        /\ queried = {}
        /\ projects = <<>>
        /\ existingAccounts = EmptyMap
        /\ loaded = EmptyMap
        /\ <<csvExists, csvRows>> = csvAtStart

C15_Witness ==
    /\ LastMessage = "Error getting projects"
    /\ csvExists
    /\ csvRows # {}
    /\ Len(gcloudProjects) = 2

(* C16 *)

\* C16 (as claimed): when writing the record file has failed, the error is the
\* last message of the run and no success is reported after it.
C16_PersistFailureTerminal ==
    CountIn(stdout, LAMBDA x : x = "Error writing CSV") > 0 =>
        /\ LastMessage = "Error writing CSV"
        /\ CountIn(stdout, LAMBDA x : x = "Operation completed successfully") = 0

(* C17 *)

\* C17: results is closed, and about to be closed, only when every worker has
\* completed its send and ended; no worker is left to send on the closed
\* channel, and the loop ends only with every outcome received and reconciled.
C17_CloseAfterAllSends ==
    /\ (resultsClosed \/ closerPc = "close") =>
          /\ reported = Workers
          /\ \A i \in Workers : workerPc[i] = "exit"
    /\ Returned => reconciled = Workers /\ Cardinality(Workers) = Len(projects)

C17_Witness ==
    /\ resultsClosed
    /\ Cardinality(Workers) = 2
    /\ mainPc = "reconcile"

(* C18 *)

\* C18: the deletion-marking pass and the write of the record file are steps
\* of main taken once each, after results is closed, every worker and the
\* closing goroutine have ended and the mutex is free; once the pass has
\* started reconciliation changes the store no more, and the file is written
\* by the write step only.
C18_PhasesDoNotOverlap ==
    /\ [](Returned =>
            /\ resultsClosed
            /\ closerPc = "exit"
            /\ \A i \in Workers : workerPc[i] = "exit"
            /\ ~mu
            /\ reconciled = Workers)
    /\ [][(mainPc \in {"write", "done"} => existingAccounts' = existingAccounts)
          /\ (mainPc = "mark" => mainPc' \in {"mark", "write"})
          /\ (mainPc = "write" => mainPc' \in {"write", "done"})
          /\ (mainPc \in {"mark", "write", "done"} => UNCHANGED <<accessStatuses, processed>>)
          /\ (<<csvExists, csvRows>>' # <<csvExists, csvRows>> => (mainPc = "write" /\ mainPc' = "done"))
          /\ (mainPc = "done" => mainPc' = "done")]_vars

C18_Witness ==
    /\ mainPc = "done"
    /\ Returned
    /\ Len(projects) = 2
    /\ <<csvExists, csvRows>> # csvAtStart
    /\ existingAccounts # loaded

(* C19 *)

\* the store a run ends with, whatever the scheduling: the loaded store with
\* the accounts of the successful queries upserted
RECURSIVE ExpectedStore(_, _)
ExpectedStore(m, n) ==
    IF n = 0 THEN m
    ELSE ExpectedStore(IF directory[n].Error THEN m
                       ELSE Upsert(m, projects[n], directory[n].ServiceAccounts),
                       n - 1)

\* C19: the send of a progress signal never finds the buffer full, the
\* signals waiting are never more than the capacity, the number of projects,
\* and however the reporter is scheduled, also when it never runs, the run
\* ends with the same store, the same access status records and the same
\* returned set.
C19_ProgressNeverBlocks ==
    /\ progressLen <= Len(projects)
    /\ mainPc = "progress" => progressLen < ProgressCap
    /\ AfterMarking =>
          /\ existingAccounts = ExpectedStore(loaded, Len(projects))
          /\ processed = SucceededProjects
          /\ Len(accessStatuses) = Len(projects)

C19_Witness ==
    /\ mainPc = "done"
    /\ Returned
    /\ Len(projects) = 2
    /\ reporterCount = 0
    /\ progressLen = 2
    /\ existingAccounts # loaded

(* C20 *)

\* C20: the set concurrentProjectProcessing returns holds a project id exactly
\* when a query of that id returned without error in this run; before that it
\* holds only such ids.
C20_ProcessedIsSucceeded ==
    /\ processed \subseteq SucceededProjects
    /\ Returned => processed = SucceededProjects

C20_Witness ==
    /\ Returned
    /\ Len(projects) = 2
    /\ processed = {projects[2]}
    /\ directory[1].Error
    /\ projects[1] # projects[2]

====
